---- MODULE Spec2Model ----
(***************************************************************************)
(* A model of the Flux Expense Tracker (src/app.py): the two tables, the   *)
(* request handlers as interleaved steps at the granularity of their       *)
(* storage statements, the form validation, the month query and the        *)
(* dashboard summary.                                                      *)
(*                                                                         *)
(* Text is a sequence of one-character strings, so that trimming and       *)
(* parsing are computed, not assumed.  Money in the store is a number of   *)
(* cents (the column is Numeric(10, 2)); float(e.amount) is a binary64     *)
(* value, kept as a fixed-point bit string.                                *)
(***************************************************************************)
EXTENDS Integers, Sequences, FiniteSets, TLC

VARIABLES
    tablesExist,   \* the tables categories and expenses exist
    categories,    \* rows of table categories: [id, name]
    expenses,      \* rows of table expenses
    clock,         \* datetime.utcnow(), as a logical time
    req,           \* per worker thread: the request it is serving
    started,       \* requests served so far
    calls,         \* last get_or_create_category calls of a serial caller
    view           \* last response of a read-only handler

vars == <<tablesExist, categories, expenses, clock, req, started, calls, view>>

store == <<tablesExist, categories, expenses>>

-----------------------------------------------------------------------------
(* Text: str.strip()                                                       *)

Whitespace == {" ", "\t", "\n"}

RECURSIVE LStrip(_)
LStrip(s) ==
    IF s # <<>> /\ Head(s) \in Whitespace THEN LStrip(Tail(s)) ELSE s

RECURSIVE RStrip(_)
RStrip(s) ==
    IF s # <<>> /\ s[Len(s)] \in Whitespace
    THEN RStrip(SubSeq(s, 1, Len(s) - 1))
    ELSE s

Strip(s) == RStrip(LStrip(s))

DigitVal ==
    ("0" :> 0) @@ ("1" :> 1) @@ ("2" :> 2) @@ ("3" :> 3) @@ ("4" :> 4) @@
    ("5" :> 5) @@ ("6" :> 6) @@ ("7" :> 7) @@ ("8" :> 8) @@ ("9" :> 9)

IsDigit(c) == c \in DOMAIN DigitVal

AllDigits(s) == \A i \in 1..Len(s) : IsDigit(s[i])

RECURSIVE DecimalValue(_)
DecimalValue(s) ==
    IF s = <<>> THEN 0
    ELSE 10 * DecimalValue(SubSeq(s, 1, Len(s) - 1)) + DigitVal[s[Len(s)]]

-----------------------------------------------------------------------------
(* float(amount_raw).  The grammar is Python's without exponents and       *)
(* underscores: [sign] (digits [. [digits]] | . digits | nan | inf).       *)
(* The parsed value is NaN, or a number of cents: the column keeps two     *)
(* decimals, and the literals of the model have at most two fraction       *)
(* digits.                                                                 *)

Unsigned(s) ==
    IF s # <<>> /\ Head(s) \in {"+", "-"} THEN Tail(s) ELSE s

DotAt(s) ==
    IF \E i \in 1..Len(s) : s[i] = "."
    THEN CHOOSE i \in 1..Len(s) : s[i] = "." /\ \A j \in 1..(i - 1) : s[j] # "."
    ELSE 0

IntPart(s) == IF DotAt(s) = 0 THEN s ELSE SubSeq(s, 1, DotAt(s) - 1)

FracPart(s) == IF DotAt(s) = 0 THEN <<>> ELSE SubSeq(s, DotAt(s) + 1, Len(s))

IsFloatLiteral(raw) ==
    LET s == Unsigned(Strip(raw)) IN
    \/ s = <<"n", "a", "n">>
    \/ /\ AllDigits(IntPart(s))
       /\ AllDigits(FracPart(s))
       /\ Len(IntPart(s)) + Len(FracPart(s)) > 0

FloatIsNaN(raw) == Unsigned(Strip(raw)) = <<"n", "a", "n">>

FloatCents(raw) ==
    LET s == Unsigned(Strip(raw))
        f == FracPart(s)
        frac == IF Len(f) = 0 THEN 0
                ELSE IF Len(f) = 1 THEN 10 * DecimalValue(f)
                ELSE DecimalValue(SubSeq(f, 1, 2))
        mag == 100 * DecimalValue(IntPart(s)) + frac
    IN  IF FloatIsNaN(raw) THEN 0
        ELSE IF Strip(raw) # <<>> /\ Head(Strip(raw)) = "-" THEN 0 - mag
        ELSE mag

\* the value float() returns, as the handlers keep it until the write
ParseFloat(raw) == [nan |-> FloatIsNaN(raw), cents |-> FloatCents(raw)]

-----------------------------------------------------------------------------
(* datetime.strptime(date_raw, "%Y-%m-%d").date()                          *)

MINYEAR == 1
MAXYEAR == 9999

IsLeap(y) == (y % 4 = 0 /\ y % 100 # 0) \/ y % 400 = 0

DaysInMonth(y, m) ==
    IF m = 2 THEN (IF IsLeap(y) THEN 29 ELSE 28)
    ELSE IF m \in {4, 6, 9, 11} THEN 30 ELSE 31

\* date(y, m, d) does not raise ValueError
IsDate(y, m, d) ==
    /\ y \in MINYEAR..MAXYEAR
    /\ m \in 1..12
    /\ d \in 1..DaysInMonth(y, m)

MkDate(y, m, d) == [y |-> y, m |-> m, d |-> d]

DateLT(a, b) ==
    \/ a.y < b.y
    \/ a.y = b.y /\ a.m < b.m
    \/ a.y = b.y /\ a.m = b.m /\ a.d < b.d

DateLE(a, b) == a = b \/ DateLT(a, b)

\* %m: 1[0-2] | 0[1-9] | [1-9]
IsMonthField(s) ==
    /\ Len(s) \in 1..2
    /\ AllDigits(s)
    /\ DecimalValue(s) \in 1..12

\* %d: 3[01] | [12]\d | 0[1-9] | [1-9] | " "[1-9]
IsDayField(s) ==
    \/ /\ Len(s) \in 1..2
       /\ AllDigits(s)
       /\ DecimalValue(s) \in 1..31
    \/ /\ Len(s) = 2
       /\ s[1] = " "
       /\ IsDigit(s[2])
       /\ DigitVal[s[2]] # 0

DayValue(s) == IF s[1] = " " THEN DigitVal[s[2]] ELSE DecimalValue(s)

\* the three fields of a string shaped \d\d\d\d-M-D, or <<>> when it is not
DateFields(s) ==
    IF Len(s) < 8 \/ ~AllDigits(SubSeq(s, 1, 4)) \/ s[5] # "-" THEN <<>>
    ELSE LET r == SubSeq(s, 6, Len(s))
             k == IF r[2] = "-" THEN 2 ELSE IF r[3] = "-" THEN 3 ELSE 0
         IN  IF k = 0 THEN <<>>
             ELSE LET mf == SubSeq(r, 1, k - 1)
                      df == SubSeq(r, k + 1, Len(r))
                  IN  IF IsMonthField(mf) /\ IsDayField(df)
                      THEN <<SubSeq(s, 1, 4), mf, df>>
                      ELSE <<>>

IsDateLiteral(raw) ==
    LET s == Strip(raw)
        f == DateFields(s)
    IN  /\ f # <<>>
        /\ IsDate(DecimalValue(f[1]), DecimalValue(f[2]), DayValue(f[3]))

ParseDate(raw) ==
    LET f == DateFields(Strip(raw))
    IN  MkDate(DecimalValue(f[1]), DecimalValue(f[2]), DayValue(f[3]))

-----------------------------------------------------------------------------
(* float(e.amount) and float addition.  A non-negative binary64 value is   *)
(* a fixed-point bit string, most significant bit first: IntBits bits      *)
(* before the point and FracBits after it.  Every binary64 value in        *)
(* [0.01, 2^IntBits) is a multiple of 2^-59, so the string holds it        *)
(* exactly, and two guard bits are left for rounding a quotient.           *)

MantissaBits == 53
IntBits == 12
FracBits == 61
FLen == IntBits + FracBits

RECURSIVE Pow2(_)
Pow2(n) == IF n = 0 THEN 1 ELSE 2 * Pow2(n - 1)

\* 2^n modulo 100, by repeated squaring
RECURSIVE Pow2Mod100(_)
Pow2Mod100(n) ==
    IF n = 0 THEN 1
    ELSE IF n % 2 = 0 THEN (Pow2Mod100(n \div 2) * Pow2Mod100(n \div 2)) % 100
    ELSE (2 * Pow2Mod100(n - 1)) % 100

\* the remainder of the long division of r by 100 after n binary digits
FracRem(r, n) == (r * Pow2Mod100(n)) % 100

\* cents / 100 cut to FracBits bits after the point: the integer part in
\* binary, then one digit of the long division per bit
QuotientBits(cents) ==
    [i \in 1..IntBits |-> ((cents \div 100) \div Pow2(IntBits - i)) % 2]
        \o [k \in 1..FracBits |->
                IF 2 * FracRem(cents % 100, k - 1) >= 100 THEN 1 ELSE 0]

QuotientInexact(cents) == FracRem(cents % 100, FracBits) # 0

LeadingOne(bits) ==
    IF \E i \in 1..Len(bits) : bits[i] = 1
    THEN CHOOSE i \in 1..Len(bits) :
            bits[i] = 1 /\ \A j \in 1..(i - 1) : bits[j] = 0
    ELSE 0

\* bits with one unit added at position last (bits after last are 0): the
\* last 0 up to there becomes 1 and the 1s after it become 0
Increment(bits, last) ==
    LET k == CHOOSE i \in 1..last :
                bits[i] = 0 /\ \A j \in (i + 1)..last : bits[j] = 1
    IN  <<>> \o [i \in 1..Len(bits) |->
                    IF i < k THEN bits[i] ELSE IF i = k THEN 1 ELSE 0]

\* round to nearest, ties to even, at MantissaBits significant bits
RoundNearestEven(bits, sticky) ==
    LET lead == LeadingOne(bits)
        last == lead + MantissaBits - 1
    IN  IF lead = 0 \/ last >= Len(bits) THEN bits
        ELSE LET rest == sticky \/ \E j \in (last + 2)..Len(bits) : bits[j] = 1
                 up == bits[last + 1] = 1 /\ (rest \/ bits[last] = 1)
                 cut == <<>> \o [i \in 1..Len(bits) |->
                                    IF i <= last THEN bits[i] ELSE 0]
             IN  IF up THEN Increment(cut, last) ELSE cut

\* float(Decimal(cents) / 100): the binary64 value nearest to the amount
ToFloat(cents) == RoundNearestEven(QuotientBits(cents), QuotientInexact(cents))

FloatZero == <<>> \o [i \in 1..FLen |-> 0]

\* the carry into position i of a + b: a position after i generates a
\* carry and every position between propagates it
CarryInto(a, b, i) ==
    IF \E j \in (i + 1)..Len(a) :
          /\ a[j] + b[j] = 2
          /\ \A k \in (i + 1)..(j - 1) : a[k] + b[k] = 1
    THEN 1 ELSE 0

AddBits(a, b) ==
    <<>> \o [i \in 1..Len(a) |-> (a[i] + b[i] + CarryInto(a, b, i)) % 2]

\* a + b in binary64
FloatAdd(a, b) == RoundNearestEven(AddBits(a, b), FALSE)

FloatLT(a, b) ==
    \E i \in 1..Len(a) : a[i] < b[i] /\ \A j \in 1..(i - 1) : a[j] = b[j]

-----------------------------------------------------------------------------
(* The seed data of seed_example_data and the names the handlers use.      *)

Uncategorized ==
    <<"U", "n", "c", "a", "t", "e", "g", "o", "r", "i", "z", "e", "d">>

NotAvailable ==
    <<"N", "/", "A">>

FoodAndCoffee ==
    <<"F", "o", "o", "d", " ", "&", " ", "C", "o", "f", "f", "e", "e">>

Rent ==
    <<"R", "e", "n", "t">>

Subscriptions ==
    <<"S", "u", "b", "s", "c", "r", "i", "p", "t", "i", "o", "n", "s">>

Transport ==
    <<"T", "r", "a", "n", "s", "p", "o", "r", "t">>

HealthAndFitness ==
    <<"H", "e", "a", "l", "t", "h", " ", "&", " ", "F", "i", "t", "n", "e",
      "s", "s">>

SeedCategories ==
    <<FoodAndCoffee, Rent, Subscriptions, Transport, HealthAndFitness>>

CoffeeBreakfast ==
    <<"C", "o", "f", "f", "e", "e", " ", "+", " ", "b", "r", "e", "a", "k",
      "f", "a", "s", "t">>

StreamingSubscription ==
    <<"S", "t", "r", "e", "a", "m", "i", "n", "g", " ", "s", "u", "b", "s",
      "c", "r", "i", "p", "t", "i", "o", "n">>

MonthlyRent ==
    <<"M", "o", "n", "t", "h", "l", "y", " ", "r", "e", "n", "t">>

GasTolls ==
    <<"G", "a", "s", " ", "+", " ", "t", "o", "l", "l", "s">>

GymMembership ==
    <<"G", "y", "m", " ", "m", "e", "m", "b", "e", "r", "s", "h", "i", "p">>

Max(a, b) == IF a >= b THEN a ELSE b

\* today.replace(day=n)
ReplaceDay(today, n) == MkDate(today.y, today.m, n)

\* sample_expenses: amount in cents, description, date, category name
SampleExpenses(today) ==
    << [amount |-> 1850, description |-> CoffeeBreakfast,
        date |-> today, category |-> FoodAndCoffee],
       [amount |-> 999, description |-> StreamingSubscription,
        date |-> ReplaceDay(today, Max(1, today.d - 2)),
        category |-> Subscriptions],
       [amount |-> 125000, description |-> MonthlyRent,
        date |-> ReplaceDay(today, 1), category |-> Rent],
       [amount |-> 4230, description |-> GasTolls,
        date |-> ReplaceDay(today, Max(1, today.d - 3)),
        category |-> Transport],
       [amount |-> 2900, description |-> GymMembership,
        date |-> ReplaceDay(today, Max(1, today.d - 5)),
        category |-> HealthAndFitness] >>

-----------------------------------------------------------------------------
(* The tables.  SQLite gives a new row the id max(id) + 1; it enforces     *)
(* UNIQUE and NOT NULL, and, as the application never turns the foreign    *)
(* key pragma on, it does not enforce the foreign key of expenses.         *)

NoRow == 0

Ids(rows) == {r.id : r \in rows}

NextId(rows) ==
    IF rows = {} THEN 1
    ELSE (CHOOSE i \in Ids(rows) : \A j \in Ids(rows) : j <= i) + 1

\* Category.query.filter_by(name=name).first(), as the id of the row
FindCategory(cats, name) ==
    IF \E c \in cats : c.name = name
    THEN (CHOOSE c \in cats : c.name = name).id
    ELSE NoRow

\* the name column declared without unique=True
UniqueViolation_Undeclared(cats, name) == FALSE

\* the UNIQUE constraint on categories.name rejects the insert
UniqueViolation(cats, name) == \E c \in cats : c.name = name

InsertCategory(cats, name) ==
    cats \cup {[id |-> NextId(cats), name |-> name]}

\* the name taken as given, without .strip()
CategoryName_Unstripped(name) ==
    IF name = <<>> THEN Uncategorized ELSE name

\* name = (name or "").strip(); if not name: name = "Uncategorized"
CategoryName(name) ==
    IF Strip(name) = <<>> THEN Uncategorized ELSE Strip(name)

InsertExpense(rows, amount, description, date, category_id, created_at) ==
    rows \cup {[id |-> NextId(rows), amount |-> amount,
                description |-> description, date |-> date,
                category_id |-> category_id, created_at |-> created_at]}

\* the UPDATE without its WHERE clause
UpdateExpense_EveryRow(rows, id, amount, description, date, category_id) ==
    {[r EXCEPT !.amount = amount, !.date = date,
               !.description = description,
               !.category_id = category_id] : r \in rows}

\* UPDATE expenses SET amount, date, description, category_id WHERE id
UpdateExpense(rows, id, amount, description, date, category_id) ==
    {IF r.id = id
     THEN [r EXCEPT !.amount = amount, !.date = date,
                    !.description = description,
                    !.category_id = category_id]
     ELSE r : r \in rows}

\* DELETE FROM expenses WHERE id
DeleteExpense(rows, id) == {r \in rows : r.id # id}

\* the rows of a flush that adds the sample expenses, one after another
RECURSIVE InsertSamples(_, _, _, _, _)
InsertSamples(rows, samples, ids, created_at, i) ==
    IF i > Len(samples) THEN rows
    ELSE InsertSamples(
            InsertExpense(rows, samples[i].amount, samples[i].description,
                          samples[i].date, ids[i], created_at),
            samples, ids, created_at, i + 1)

RECURSIVE InsertCategories(_, _, _)
InsertCategories(cats, names, i) ==
    IF i > Len(names) THEN cats
    ELSE InsertCategories(InsertCategory(cats, names[i]), names, i + 1)

-----------------------------------------------------------------------------
(* The month query and the dashboard.                                      *)

\* get_month_expenses raises ValueError: date(year, month, 1) or the first
\* day of the next month is not a date
MonthQueryRaises(year, month) ==
    \/ ~IsDate(year, month, 1)
    \/ IF month = 12 THEN ~IsDate(year + 1, 1, 1)
       ELSE ~IsDate(year, month + 1, 1)

First(year, month) == MkDate(year, month, 1)

NextFirst(year, month) ==
    IF month = 12 THEN MkDate(year + 1, 1, 1) ELSE MkDate(year, month + 1, 1)

\* .filter(Expense.date >= first, Expense.date < next_first)
MonthFilter(rows, year, month) ==
    {e \in rows : /\ DateLE(First(year, month), e.date)
                  /\ DateLT(e.date, NextFirst(year, month))}

Orderings(S) ==
    {f \in [1..Cardinality(S) -> S] :
        \A i, j \in 1..Cardinality(S) : i # j => f[i] # f[j]}

\* .order_by(Expense.date.asc()).all(): the order of rows of one date is
\* the engine's choice
OrderByDate(S) ==
    {f \in Orderings(S) :
        \A i, j \in 1..Cardinality(S) : i < j => ~DateLT(f[j].date, f[i].date)}

\* e.category.name
CategoryOf(cats, e) == (CHOOSE c \in cats : c.id = e.category_id).name

\* sum(float(e.amount) for e in monthly_expenses): int 0, then left to right
RECURSIVE FloatSum(_, _)
FloatSum(rows, n) ==
    IF n = 0 THEN FloatZero
    ELSE FloatAdd(FloatSum(rows, n - 1), ToFloat(rows[n].amount))

\* per_category[name] after the loop over the first n rows
RECURSIVE PerCategory(_, _, _, _)
PerCategory(cats, rows, name, n) ==
    IF n = 0 THEN FloatZero
    ELSE IF CategoryOf(cats, rows[n]) = name
         THEN FloatAdd(PerCategory(cats, rows, name, n - 1),
                       ToFloat(rows[n].amount))
    ELSE PerCategory(cats, rows, name, n - 1)

\* the keys of per_category, in the order the loop inserted them
RECURSIVE Labels(_, _, _)
Labels(cats, rows, n) ==
    IF n = 0 THEN <<>>
    ELSE LET before == Labels(cats, rows, n - 1)
             name == CategoryOf(cats, rows[n])
         IN  IF \E i \in 1..Len(before) : before[i] = name
             THEN before ELSE Append(before, name)

\* max(per_category, key=per_category.get): the first key of the largest value
TopCategory(cats, rows) ==
    LET keys == Labels(cats, rows, Len(rows))
        vals == <<>> \o [i \in 1..Len(keys) |->
                            PerCategory(cats, rows, keys[i], Len(rows))]
        top == CHOOSE i \in 1..Len(keys) :
                  /\ \A j \in 1..Len(keys) : ~FloatLT(vals[i], vals[j])
                  /\ \A j \in 1..(i - 1) : FloatLT(vals[j], vals[i])
    IN  keys[top]

\* the summary dictionary of index()
Summary(cats, rows) ==
    [total_spent |-> FloatSum(rows, Len(rows)),
     top_category |-> IF rows = <<>> THEN NotAvailable
                      ELSE TopCategory(cats, rows),
     top_category_amount |->
        IF rows = <<>> THEN FloatZero
        ELSE PerCategory(cats, rows, TopCategory(cats, rows), Len(rows)),
     transactions_count |-> Len(rows)]

NoSummary ==
    [total_spent |-> FloatZero, top_category |-> <<>>,
     top_category_amount |-> FloatZero, transactions_count |-> 0]

NoView ==
    [op |-> "none", year |-> 0, month |-> 0, raised |-> FALSE,
     rows |-> <<>>, summary |-> NoSummary]

-----------------------------------------------------------------------------
(* Requests.  The development server serves each request on a thread of    *)
(* its own, so handlers interleave between their storage statements.       *)

MaxProcs == 2
MaxRequests == 2

Procs == 1..MaxProcs

AmountInputs ==
    { <<>>, <<"a", "b", "c">>, <<" ", "0", ".", "1", "0">>,
      <<"n", "a", "n">> }

DateInputs ==
    { <<>>, <<"2", "0", "2", "4", "-", "1", "3", "-", "4", "0">>,
      <<"2", "0", "2", "4", "-", "1", "2", "-", "3", "1">> }

CategoryInputs == { <<>>, Rent }

NewCategoryInputs == { <<>>, <<" ", "X">> }

DescriptionInputs == { <<"d", " ">> }

IdInputs == {1, 6}

TodayInputs == { MkDate(2024, 12, 31) }

Forms ==
    [amount : AmountInputs, date : DateInputs, category : CategoryInputs,
     new_category : NewCategoryInputs, description : DescriptionInputs]

EmptyForm ==
    [amount |-> <<>>, date |-> <<>>, category |-> <<>>,
     new_category |-> <<>>, description |-> <<>>]

Idle ==
    [op |-> "none", method |-> "GET", pc |-> "idle", result |-> "none",
     id |-> NoRow, form |-> EmptyForm, cat |-> NoRow, expired |-> FALSE,
     seed |-> <<>>]

Request(op, method, pc, id, form) ==
    [op |-> op, method |-> method, pc |-> pc, result |-> "none",
     id |-> id, form |-> form, cat |-> NoRow, expired |-> FALSE,
     seed |-> <<>>]

\* the handler returns: the response, and the thread is free again
Respond(p, result) ==
    req' = [req EXCEPT ![p].pc = "done", ![p].result = result]

Goto(p, pc) == req' = [req EXCEPT ![p].pc = pc]

Free(p) == req[p].pc \in {"idle", "done"} /\ started < MaxRequests

\* the validation without the try around strptime
ValidationFails_DateUnchecked(form) ==
    \/ Strip(form.amount) = <<>>
    \/ Strip(form.date) = <<>>
    \/ ~IsFloatLiteral(Strip(form.amount))

\* "Basic validation" of new_expense and edit_expense, up to the last
\* except ValueError
ValidationFails(form) ==
    \/ Strip(form.amount) = <<>>
    \/ Strip(form.date) = <<>>
    \/ ~IsFloatLiteral(Strip(form.amount))
    \/ ~IsDateLiteral(Strip(form.date))

\* "Decide which category to use": the argument of get_or_create_category
ChosenCategory(form) ==
    IF Strip(form.new_category) # <<>> THEN Strip(form.new_category)
    ELSE IF Strip(form.category) # <<>> THEN Strip(form.category)
    ELSE Uncategorized

\* POST /expenses/new: the form is read and validated before any statement
BeginCreate(p) ==
    /\ Free(p)
    /\ \E form \in Forms :
          req' = [req EXCEPT ![p] =
                    IF ValidationFails(form)
                    THEN [Request("create", "POST", "done", NoRow, form)
                            EXCEPT !.result = "ValidationError"]
                    ELSE Request("create", "POST", "lookup", NoRow, form)]
    /\ started' = started + 1
    /\ UNCHANGED <<tablesExist, categories, expenses, clock, calls, view>>

\* GET or POST /expenses/<id>/edit
BeginEdit(p) ==
    /\ Free(p)
    /\ \E id \in IdInputs, method \in {"GET", "POST"}, form \in Forms :
          /\ method = "GET" => form = CHOOSE f \in Forms : TRUE
          /\ req' = [req EXCEPT ![p] = Request("edit", method, "load", id, form)]
    /\ started' = started + 1
    /\ UNCHANGED <<tablesExist, categories, expenses, clock, calls, view>>

\* POST /expenses/<id>/delete
BeginDelete(p) ==
    /\ Free(p)
    /\ \E id \in IdInputs :
          req' = [req EXCEPT ![p] =
                    Request("delete", "POST", "load", id, EmptyForm)]
    /\ started' = started + 1
    /\ UNCHANGED <<tablesExist, categories, expenses, clock, calls, view>>

\* GET /init-db
BeginInit(p) ==
    /\ Free(p)
    /\ req' = [req EXCEPT ![p] = Request("init", "GET", "drop", NoRow, EmptyForm)]
    /\ started' = started + 1
    /\ UNCHANGED <<tablesExist, categories, expenses, clock, calls, view>>

\* the lookup by .get(), which returns None where get_or_404 aborts
Load_WithoutAbort(p) ==
    /\ req[p].pc = "load"
    /\ IF ~tablesExist THEN Respond(p, "OperationalError")
       ELSE IF req[p].op = "delete" THEN Goto(p, "delete")
       ELSE IF req[p].method = "GET" THEN Respond(p, "ok")
       ELSE IF ValidationFails(req[p].form)
            THEN Respond(p, "ValidationError")
       ELSE Goto(p, "lookup")
    /\ UNCHANGED <<tablesExist, categories, expenses, clock, started, calls, view>>

\* expense = Expense.query.get_or_404(expense_id), and for edit_expense the
\* validation that follows it
Load(p) ==
    /\ req[p].pc = "load"
    /\ IF ~tablesExist THEN Respond(p, "OperationalError")
       ELSE IF req[p].id \notin Ids(expenses) THEN Respond(p, "NotFound")
       ELSE IF req[p].op = "delete" THEN Goto(p, "delete")
       ELSE IF req[p].method = "GET" THEN Respond(p, "ok")
       ELSE IF ValidationFails(req[p].form)
            THEN Respond(p, "ValidationError")
       ELSE Goto(p, "lookup")
    /\ UNCHANGED <<tablesExist, categories, expenses, clock, started, calls, view>>

\* get_or_create_category: Category.query.filter_by(name=name).first()
Lookup(p) ==
    /\ req[p].pc = "lookup"
    /\ LET found == FindCategory(categories,
                                 CategoryName(ChosenCategory(req[p].form)))
       IN  IF ~tablesExist THEN Respond(p, "OperationalError")
           ELSE IF found = NoRow THEN Goto(p, "insert")
           ELSE req' = [req EXCEPT ![p].cat = found,
                           ![p].pc = IF req[p].op = "create"
                                     THEN "write" ELSE "update"]
    /\ UNCHANGED <<tablesExist, categories, expenses, clock, started, calls, view>>

\* get_or_create_category: db.session.add(category); db.session.commit().
\* The commit expires the objects of the session.
InsertNewCategory(p) ==
    /\ req[p].pc = "insert"
    /\ LET name == CategoryName(ChosenCategory(req[p].form))
       IN  IF ~tablesExist
           THEN Respond(p, "OperationalError") /\ UNCHANGED categories
           ELSE IF UniqueViolation(categories, name)
           THEN Respond(p, "IntegrityError: UNIQUE") /\ UNCHANGED categories
           ELSE /\ categories' = InsertCategory(categories, name)
                /\ req' = [req EXCEPT ![p].cat = NextId(categories),
                              ![p].expired = TRUE, ![p].pc = "refresh"]
    /\ UNCHANGED <<tablesExist, expenses, clock, started, calls, view>>

\* the flush reads the id of the expired category back by its identity
Refresh(p) ==
    /\ req[p].pc = "refresh"
    /\ IF ~tablesExist THEN Respond(p, "OperationalError")
       ELSE IF req[p].cat \notin Ids(categories)
            THEN Respond(p, "ObjectDeletedError")
       ELSE Goto(p, IF req[p].op = "create" THEN "write" ELSE "update")
    /\ UNCHANGED <<tablesExist, categories, expenses, clock, started, calls, view>>

\* new_expense: db.session.add(expense); db.session.commit().  A NaN
\* amount is bound as NULL, which the NOT NULL column rejects.
WriteExpense(p) ==
    /\ req[p].pc = "write"
    /\ LET amount == ParseFloat(req[p].form.amount)
       IN  IF ~tablesExist
           THEN Respond(p, "OperationalError") /\ UNCHANGED <<expenses, clock>>
           ELSE IF amount.nan
           THEN Respond(p, "IntegrityError: NOT NULL") /\ UNCHANGED <<expenses, clock>>
           ELSE /\ expenses' = InsertExpense(expenses, amount.cents,
                                   Strip(req[p].form.description),
                                   ParseDate(req[p].form.date),
                                   req[p].cat, clock)
                /\ clock' = clock + 1
                /\ Respond(p, "ok")
    /\ UNCHANGED <<tablesExist, categories, started, calls, view>>

\* edit_expense: "Apply updates" and db.session.commit()
ApplyUpdates(p) ==
    /\ req[p].pc = "update"
    /\ LET amount == ParseFloat(req[p].form.amount)
       IN  IF ~tablesExist
           THEN Respond(p, "OperationalError") /\ UNCHANGED expenses
           ELSE IF req[p].id \notin Ids(expenses)
           THEN Respond(p, "StaleDataError") /\ UNCHANGED expenses
           ELSE IF amount.nan
           THEN Respond(p, "IntegrityError: NOT NULL") /\ UNCHANGED expenses
           ELSE /\ expenses' = UpdateExpense(expenses, req[p].id,
                                   amount.cents,
                                   Strip(req[p].form.description),
                                   ParseDate(req[p].form.date), req[p].cat)
                /\ Respond(p, "ok")
    /\ UNCHANGED <<tablesExist, categories, clock, started, calls, view>>

\* delete_expense: db.session.delete(expense); db.session.commit().  A
\* DELETE that matches no row is a warning, not an error.
Delete(p) ==
    /\ req[p].pc = "delete"
    /\ IF ~tablesExist
       THEN Respond(p, "OperationalError") /\ UNCHANGED expenses
       ELSE expenses' = DeleteExpense(expenses, req[p].id) /\ Respond(p, "ok")
    /\ UNCHANGED <<tablesExist, categories, clock, started, calls, view>>

\* init_db_route: db.drop_all()
DropAll(p) ==
    /\ req[p].pc = "drop"
    /\ tablesExist' = FALSE
    /\ categories' = {}
    /\ expenses' = {}
    /\ Goto(p, "create")
    /\ UNCHANGED <<clock, started, calls, view>>

\* init_db_route: db.create_all(), which skips the tables that exist
CreateAll(p) ==
    /\ req[p].pc = "create"
    /\ tablesExist' = TRUE
    /\ Goto(p, "seedCategories")
    /\ UNCHANGED <<categories, expenses, clock, started, calls, view>>

\* seed_example_data: the five categories and their commit
SeedCategoryRows(p) ==
    /\ req[p].pc = "seedCategories"
    /\ IF ~tablesExist
       THEN Respond(p, "OperationalError") /\ UNCHANGED categories
       ELSE IF \E i \in 1..Len(SeedCategories) :
                  UniqueViolation(categories, SeedCategories[i])
       THEN Respond(p, "IntegrityError: UNIQUE") /\ UNCHANGED categories
       ELSE /\ categories' = InsertCategories(categories, SeedCategories, 1)
            /\ Goto(p, "seedLookup")
    /\ UNCHANGED <<tablesExist, expenses, clock, started, calls, view>>

\* seed_example_data: get_cat(name) for each sample expense
SeedLookup(p) ==
    /\ req[p].pc = "seedLookup"
    /\ IF ~tablesExist THEN Respond(p, "OperationalError")
       ELSE \E today \in TodayInputs :
              req' = [req EXCEPT ![p].pc = "seedExpenses",
                        ![p].seed = [i \in 1..Len(SampleExpenses(today)) |->
                            FindCategory(categories,
                                SampleExpenses(today)[i].category)]]
    /\ UNCHANGED <<tablesExist, categories, expenses, clock, started, calls, view>>

\* seed_example_data: the five expenses and their commit.  A category
\* that get_cat did not find leaves category_id NULL.
SeedExpenseRows(p) ==
    /\ req[p].pc = "seedExpenses"
    /\ IF ~tablesExist
       THEN Respond(p, "OperationalError") /\ UNCHANGED <<expenses, clock>>
       ELSE IF \E i \in 1..Len(req[p].seed) : req[p].seed[i] = NoRow
       THEN Respond(p, "IntegrityError: NOT NULL") /\ UNCHANGED <<expenses, clock>>
       ELSE \E today \in TodayInputs :
              /\ expenses' = InsertSamples(expenses, SampleExpenses(today),
                                           req[p].seed, clock, 1)
              /\ clock' = clock + 1
              /\ Respond(p, "ok")
    /\ UNCHANGED <<tablesExist, categories, started, calls, view>>

\* what a complete run of init_db_route leaves in an empty database
SeededCategories == InsertCategories({}, SeedCategories, 1)

SeededExpenses(today) ==
    InsertSamples({}, SampleExpenses(today),
        [i \in 1..Len(SampleExpenses(today)) |->
            FindCategory(SeededCategories, SampleExpenses(today)[i].category)],
        0, 1)

\* create_app() makes no table.  The database file outlives the process:
\* a start finds it absent, or as an earlier run of /init-db left it.
Init ==
    /\ \/ /\ tablesExist = FALSE
          /\ categories = {}
          /\ expenses = {}
          /\ clock = 0
       \/ /\ tablesExist = TRUE
          /\ categories = SeededCategories
          /\ \E today \in TodayInputs : expenses = SeededExpenses(today)
          /\ clock = 1
    /\ req = [p \in Procs |-> Idle]
    /\ started = 0
    /\ calls = <<>>
    /\ view = NoView

Next ==
    \E p \in Procs :
        \/ BeginCreate(p)
        \/ BeginEdit(p)
        \/ BeginDelete(p)
        \/ BeginInit(p)
        \/ Load(p)
        \/ Lookup(p)
        \/ InsertNewCategory(p)
        \/ Refresh(p)
        \/ WriteExpense(p)
        \/ ApplyUpdates(p)
        \/ Delete(p)
        \/ DropAll(p)
        \/ CreateAll(p)
        \/ SeedCategoryRows(p)
        \/ SeedLookup(p)
        \/ SeedExpenseRows(p)

Spec == Init /\ [][Next]_vars

-----------------------------------------------------------------------------
(* The month query and the dashboard as requests on a fixed table.         *)

MaxRows == 3

QueryYears == {2024, MAXYEAR}

QueryMonths == {11, 12}

MonthRowInputs ==
    [amount : {10},
     date : { MkDate(2024, 11, 30), MkDate(2024, 12, 1), MkDate(2024, 12, 31),
              MkDate(2025, 1, 1), MkDate(MAXYEAR, 12, 31) },
     category_id : {1}]

DashboardRowInputs ==
    [amount : {10, 20},
     date : { MkDate(2024, 12, 1), MkDate(2024, 12, 31) },
     category_id : {1, 2}]

\* the table that creating the rows of s, one request after another, leaves
TableOf(s) ==
    {[id |-> i, amount |-> s[i].amount, description |-> <<>>,
      date |-> s[i].date, category_id |-> s[i].category_id,
      created_at |-> i] : i \in 1..Len(s)}

Tables(inputs) ==
    {TableOf(s) : s \in UNION {[1..n -> inputs] : n \in 0..MaxRows}}

\* a call of get_month_expenses(year, month)
GetMonthExpenses ==
    /\ view.op = "none"
    /\ \E year \in QueryYears, month \in QueryMonths :
          IF MonthQueryRaises(year, month)
          THEN view' = [NoView EXCEPT !.op = "month", !.year = year,
                           !.month = month, !.raised = TRUE]
          ELSE \E rows \in OrderByDate(MonthFilter(expenses, year, month)) :
                 view' = [NoView EXCEPT !.op = "month", !.year = year,
                             !.month = month, !.rows = rows]
    /\ UNCHANGED <<tablesExist, categories, expenses, clock, req,
                   started, calls>>

\* GET /: index() for the selected year and month
Dashboard ==
    /\ view.op = "none"
    /\ \E year \in QueryYears, month \in QueryMonths :
          IF MonthQueryRaises(year, month)
          THEN view' = [NoView EXCEPT !.op = "index", !.year = year,
                           !.month = month, !.raised = TRUE]
          ELSE \E rows \in OrderByDate(MonthFilter(expenses, year, month)) :
                 view' = [NoView EXCEPT !.op = "index", !.year = year,
                             !.month = month, !.rows = rows,
                             !.summary = Summary(categories, rows)]
    /\ UNCHANGED <<tablesExist, categories, expenses, clock, req,
                   started, calls>>

\* the response is sent, and the next request can be served
Deliver ==
    /\ view.op # "none"
    /\ view' = NoView
    /\ UNCHANGED <<tablesExist, categories, expenses, clock, req,
                   started, calls>>

InitTable(inputs) ==
    /\ tablesExist = TRUE
    /\ categories = SeededCategories
    /\ expenses \in Tables(inputs)
    /\ clock = MaxRows + 1
    /\ req = [p \in Procs |-> Idle]
    /\ started = 0
    /\ calls = <<>>
    /\ view = NoView

InitMonth == InitTable(MonthRowInputs)

NextMonth == GetMonthExpenses \/ Deliver

SpecMonth == InitMonth /\ [][NextMonth]_vars

InitDashboard == InitTable(DashboardRowInputs)

NextDashboard == Dashboard \/ Deliver

SpecDashboard == InitDashboard /\ [][NextDashboard]_vars

-----------------------------------------------------------------------------
(* get_or_create_category called by one caller at a time.                  *)

NameInputs ==
    { <<>>, <<" ">>, <<"X">>, <<" ", "X">>, <<"X", " ">>, <<"x">>,
      Rent, <<" ">> \o Rent \o <<"\t">>, Uncategorized }

\* one whole call of get_or_create_category(name), and what it returned
GetOrCreateCategory ==
    \E name \in NameInputs :
        LET found == FindCategory(categories, CategoryName(name))
            id == IF found = NoRow THEN NextId(categories) ELSE found
        IN  /\ categories' = IF found = NoRow
                             THEN InsertCategory(categories, CategoryName(name))
                             ELSE categories
            /\ calls' = <<[name |-> name, id |-> id,
                           created |-> found = NoRow]>>
                        \o SubSeq(calls, 1, IF calls = <<>> THEN 0 ELSE 1)
            /\ UNCHANGED <<tablesExist, expenses, clock, req, started, view>>

InitCategories ==
    /\ tablesExist = TRUE
    /\ categories \in {{}, SeededCategories}
    /\ expenses = {}
    /\ clock = 0
    /\ req = [p \in Procs |-> Idle]
    /\ started = 0
    /\ calls = <<>>
    /\ view = NoView

SpecCategories == InitCategories /\ [][GetOrCreateCategory]_vars

-----------------------------------------------------------------------------
(* Properties.                                                             *)

Done(p) == req[p].pc = "done"

Failed(p) == Done(p) /\ req[p].result # "ok"

NameX == <<"X">>

\* C1: in every reachable state no two rows of categories have the same
\* name, whatever requests ran and however they interleaved.
C1_UniqueCategoryNames ==
    \A c1, c2 \in categories : c1.name = c2.name => c1 = c2

\* C1, the case: two requests raced to insert one new name and the
\* second insert was rejected.
C1_Witness ==
    \E p, q \in Procs :
        /\ p # q
        /\ Done(p) /\ req[p].result = "IntegrityError: UNIQUE"
        /\ Done(q) /\ req[q].result = "ok" /\ req[q].expired
        /\ ChosenCategory(req[p].form) = ChosenCategory(req[q].form)
        /\ FindCategory(categories, NameX) # NoRow

\* The submissions C3 speaks of, listed: the amounts that are missing,
\* blank or no number, and the dates that are missing or no date.
C3_BadAmounts == { <<>>, <<"a", "b", "c">> }

C3_BadDates ==
    { <<>>, <<"2", "0", "2", "4", "-", "1", "3", "-", "4", "0">> }

C3_Invalid(form) ==
    form.amount \in C3_BadAmounts \/ form.date \in C3_BadDates

\* C3: no step of a createExpense or editExpense submission whose amount
\* or date is invalid changes the store; the request never gets to
\* resolve its category and ends without a success.
C3_InvalidSubmissionChangesNothing ==
    [][\A p \in Procs :
          ( /\ req'[p] # req[p]
            /\ req'[p].op \in {"create", "edit"}
            /\ req'[p].method = "POST"
            /\ C3_Invalid(req'[p].form) )
          => /\ store' = store
             /\ req'[p].pc \in {"load", "done"}
             /\ req'[p].pc = "done" => req'[p].result # "ok"]_vars

\* C3, the case: a create and an edit, each invalid and each carrying a
\* new category name, have both ended, and the name is no category.
C3_Witness ==
    \E p, q \in Procs :
        /\ req[p].op = "create" /\ req[q].op = "edit"
        /\ \A r \in {p, q} :
              /\ Done(r) /\ req[r].result = "ValidationError"
              /\ C3_Invalid(req[r].form)
              /\ Strip(req[r].form.new_category) = NameX
        /\ tablesExist
        /\ FindCategory(categories, NameX) = NoRow

\* C4: when two get_or_create_category calls race on one new name, the
\* second insert's constraint violation is caught: no request fails of it.
C4_RaceIsResolved ==
    \A p \in Procs :
        ~(Done(p) /\ req[p].op \in {"create", "edit"}
                  /\ req[p].result = "IntegrityError: UNIQUE")

\* C5: a createExpense or editExpense request that failed has left no
\* category of its own making in the store.
C5_FailureLeavesNoCategory ==
    \A p \in Procs :
        ( /\ req[p].op \in {"create", "edit"}
          /\ Failed(p)
          /\ req[p].expired )
        => ~\E c \in categories :
              /\ c.id = req[p].cat
              /\ c.name = CategoryName(ChosenCategory(req[p].form))

-----------------------------------------------------------------------------
(* Properties of the month query and the dashboard.                        *)

RECURSIVE SumCents(_)
SumCents(S) ==
    IF S = {} THEN 0
    ELSE LET e == CHOOSE x \in S : TRUE IN e.amount + SumCents(S \ {e})

InMonth(rows, year, month) ==
    {e \in rows : e.date.y = year /\ e.date.m = month}

RowsOf(seq) == {seq[i] : i \in 1..Len(seq)}

\* C2: for every year and every month of 1..12, get_month_expenses
\* returns exactly the expenses dated in that month, in ascending order
\* of date.
C2_MonthQueryExact ==
    view.op = "month" =>
        /\ ~view.raised
        /\ RowsOf(view.rows) = InMonth(expenses, view.year, view.month)
        /\ Len(view.rows) = Cardinality(RowsOf(view.rows))
        /\ \A i, j \in 1..Len(view.rows) :
              i < j => DateLE(view.rows[i].date, view.rows[j].date)

\* The statement of C2 for the calls that return.
MonthQueryExactWhenItReturns ==
    (view.op = "month" /\ ~view.raised) =>
        /\ RowsOf(view.rows) = InMonth(expenses, view.year, view.month)
        /\ Len(view.rows) = Cardinality(RowsOf(view.rows))
        /\ \A i, j \in 1..Len(view.rows) :
              i < j => DateLE(view.rows[i].date, view.rows[j].date)

\* the summed cents of the rows of S in the category named name
CategoryCents(S, name) ==
    SumCents({e \in S : CategoryOf(categories, e) = name})

\* C8, without its amounts: the count, the top category as one of the
\* largest exact sum, and the summary of an empty month.
SummaryCountAndTopCategory ==
    (view.op = "index" /\ ~view.raised) =>
        LET S == InMonth(expenses, view.year, view.month)
            names == {CategoryOf(categories, e) : e \in S}
        IN  /\ view.summary.transactions_count = Cardinality(S)
            /\ S = {} => /\ view.summary.top_category = NotAvailable
                         /\ view.summary.top_category_amount = FloatZero
                         /\ view.summary.total_spent = FloatZero
            /\ S # {} => /\ view.summary.top_category \in names
                         /\ \A n \in names :
                               CategoryCents(S, n)
                                  <= CategoryCents(S, view.summary.top_category)

\* C8: the summary counts the expenses of the month, total_spent is the
\* sum of their amounts, top_category is a category of the largest sum
\* and top_category_amount is that sum; an empty month gives "N/A" and 0.
C8_SummaryMatchesExpenses ==
    (view.op = "index" /\ ~view.raised) =>
        LET S == InMonth(expenses, view.year, view.month)
        IN  /\ SummaryCountAndTopCategory
            /\ view.summary.total_spent = ToFloat(SumCents(S))
            /\ S # {} =>
                  view.summary.top_category_amount =
                     ToFloat(CategoryCents(S, view.summary.top_category))

-----------------------------------------------------------------------------
(* Properties of get_or_create_category.                                   *)

Blank(name) == \A i \in 1..Len(name) : name[i] \in Whitespace

\* a and b are one text between different runs of whitespace
DifferInSurroundingWhitespaceOnly(a, b) ==
    \E i \in 1..(Len(a) + 1), j \in 0..Len(a),
       k \in 1..(Len(b) + 1), l \in 0..Len(b) :
        /\ SubSeq(a, i, j) = SubSeq(b, k, l)
        /\ Blank(SubSeq(a, 1, i - 1)) /\ Blank(SubSeq(a, j + 1, Len(a)))
        /\ Blank(SubSeq(b, 1, k - 1)) /\ Blank(SubSeq(b, l + 1, Len(b)))

\* C9: two successive calls whose names are equal, or differ in
\* surrounding whitespace only, return one id and the second adds no
\* row; a blank name resolves to the category named "Uncategorized".
C9_GetOrCreateIdempotent ==
    /\ Len(calls) = 2 /\ DifferInSurroundingWhitespaceOnly(calls[1].name, calls[2].name)
          => calls[1].id = calls[2].id /\ ~calls[1].created
    /\ \A i \in 1..Len(calls) :
          Blank(calls[i].name) =>
             [id |-> calls[i].id, name |-> Uncategorized] \in categories

\* C9, the case: a call created a category and the next call, with the
\* name spaced differently, returned it.
C9_Witness ==
    /\ Len(calls) = 2
    /\ calls[2].created
    /\ calls[2].name = <<" ", "X">>
    /\ calls[1].name = <<"X", " ">>
    /\ calls[1].id = calls[2].id

\* C10: in every reachable state every row of expenses references a row
\* of categories.
C10_NoOrphanedExpense ==
    \A e \in expenses : \E c \in categories : c.id = e.category_id

=============================================================================
